---------------------------- MODULE Spec2Model ----------------------------
(***************************************************************************)
(* Gitalyzer backend: the /api/analyze request handler, the GitHub         *)
(* snapshot fetcher, the rule-based fallback summary and the PDF builder.  *)
(*                                                                         *)
(* Text is modelled as a sequence of tokens.  A token is a TLA+ string     *)
(* standing for one character (" ", "/", ":", "\n", ",") or for one        *)
(* indivisible word ("github.com", ".git", "Description", "Foo").  The     *)
(* Python string methods the code uses are defined on token sequences and  *)
(* computed the way Python computes them.                                  *)
(***************************************************************************)
EXTENDS Integers, Sequences, FiniteSets, TLC

VARIABLES
    urlCase,        \* SpecUrl: the URL handed to extract_owner_repo, with how it was built
    urlResult       \* SpecUrl: what extract_owner_repo returned or raised

urlVars == <<urlCase, urlResult>>

VARIABLES
    ctxCase,        \* SpecFallback: the context text, and the snapshot it was built from
    fallbackResult, \* SpecFallback: what generate_rule_based_summary returned
    pdfRequest,     \* SpecPdf: the validated PdfRequest
    pdfDocument     \* SpecPdf: the blocks build_pdf wrote

fallbackVars == <<ctxCase, fallbackResult>>
pdfVars == <<pdfRequest, pdfDocument>>
otherVars == <<urlVars, fallbackVars, pdfVars>>

(***************************************************************************)
(* Bounds of the model.                                                    *)
(***************************************************************************)
MaxUrlLen == 4      \* longest free-form URL, in tokens
MaxNameLen == 2     \* longest owner / repository name, in tokens
MaxCommits == 2     \* most commit records in one answer of the commits call
MaxContextLines == 3 \* most lines of a free-form context text
MaxListLen == 1     \* longest list of a narrative handed to the PDF builder

(***************************************************************************)
(* Python str methods on token sequences.                                  *)
(***************************************************************************)
Whitespace == {" ", "\n"}

Min(S) == CHOOSE x \in S : \A y \in S : x <= y

\* s[i:]  (1-based, i may exceed Len(s)+1)
Drop(s, k) == IF k >= Len(s) THEN <<>> ELSE SubSeq(s, k + 1, Len(s))

\* s[:k]
Take(s, k) == IF k >= Len(s) THEN s ELSE SubSeq(s, 1, k)

\* position of the first occurrence of sub in s, 0 when there is none (str.find + 1)
Find(s, sub) ==
    LET hits == {i \in 1..(Len(s) - Len(sub) + 1) : SubSeq(s, i, i + Len(sub) - 1) = sub}
    IN  IF hits = {} THEN 0 ELSE Min(hits)

\* sub in s
Contains(s, sub) == Find(s, sub) /= 0

StartsWith(s, p) == Len(s) >= Len(p) /\ SubSeq(s, 1, Len(p)) = p

EndsWith(s, p) == Len(s) >= Len(p) /\ SubSeq(s, Len(s) - Len(p) + 1, Len(s)) = p

RECURSIVE LStripSet(_, _)
LStripSet(s, chars) ==
    IF s /= <<>> /\ Head(s) \in chars THEN LStripSet(Tail(s), chars) ELSE s

RECURSIVE RStripSet(_, _)
RStripSet(s, chars) ==
    IF s /= <<>> /\ s[Len(s)] \in chars THEN RStripSet(SubSeq(s, 1, Len(s) - 1), chars) ELSE s

\* s.strip()
Strip(s) == RStripSet(LStripSet(s, Whitespace), Whitespace)

\* s.split(sep): every non-overlapping occurrence of sep, left to right, cuts
RECURSIVE Split(_, _)
Split(s, sep) ==
    LET i == Find(s, sep)
    IN  IF i = 0 THEN <<s>>
        ELSE <<SubSeq(s, 1, i - 1)>> \o Split(Drop(s, i + Len(sep) - 1), sep)

\* s.split(sep, 1)
SplitOnce(s, sep) ==
    LET i == Find(s, sep)
    IN  IF i = 0 THEN <<s>>
        ELSE <<SubSeq(s, 1, i - 1), Drop(s, i + Len(sep) - 1)>>

\* s.splitlines(): lines end at "\n"; a final "\n" opens no further line
RECURSIVE SplitLines(_)
SplitLines(s) ==
    IF s = <<>> THEN <<>>
    ELSE LET i == Find(s, <<"\n">>)
         IN  IF i = 0 THEN <<s>>
             ELSE <<SubSeq(s, 1, i - 1)>> \o SplitLines(Drop(s, i))

\* sep.join(items)
RECURSIVE Join(_, _)
Join(sep, items) ==
    IF items = <<>> THEN <<>>
    ELSE IF Len(items) = 1 THEN items[1]
    ELSE items[1] \o sep \o Join(sep, Tail(items))

\* all sequences over S of length at most n
RECURSIVE SeqsUpTo(_, _)
SeqsUpTo(S, n) ==
    IF n = 0 THEN {<<>>}
    ELSE LET shorter == SeqsUpTo(S, n - 1)
         IN  shorter \cup {Append(s, x) : s \in {t \in shorter : Len(t) = n - 1}, x \in S}

(***************************************************************************)
(* github_client.extract_owner_repo                                        *)
(***************************************************************************)
GITHUB_MARKER == <<"github.com">>

ValueErrorNotGitHub == [ok |-> FALSE, error |-> "ValueError",
                        detail |-> "The provided URL does not appear to be a GitHub repository"]

ValueErrorMissingPart == [ok |-> FALSE, error |-> "ValueError",
                          detail |-> "Please include both the owner and repository name in the URL"]

\* the repository slug as returned without removing a ".git" suffix
keep_git_suffix(repo) == repo

\* if repo.endswith(".git"): repo = repo[:-4]
strip_git_suffix(repo) ==
    IF EndsWith(repo, <<".git">>) THEN SubSeq(repo, 1, Len(repo) - 1) ELSE repo

extract_owner_repo(repo_url) ==
    IF ~Contains(repo_url, GITHUB_MARKER) THEN ValueErrorNotGitHub
    ELSE LET cleaned == RStripSet(Strip(repo_url), {"/"})
             after == Split(cleaned, GITHUB_MARKER \o <<"/">>)
             parts == Split(after[Len(after)], <<"/">>)
         IN  IF Len(parts) < 2 THEN ValueErrorMissingPart
             ELSE [ok |-> TRUE, owner |-> parts[1], repo |-> strip_git_suffix(parts[2])]


NoName == <<>>
NoUrlResult == [ok |-> FALSE, error |-> "pending", detail |-> ""]

(***************************************************************************)
(* Python values: the JSON-shaped data the code passes around.             *)
(* t is the Python type, v the payload (token sequence, integer, sequence  *)
(* of values, or a function from keys to values).                          *)
(***************************************************************************)
PyStr(s) == [t |-> "str", v |-> s]
PyNone == [t |-> "NoneType", v |-> <<>>]
PyInt(n) == [t |-> "int", v |-> n]
PyList(xs) == [t |-> "list", v |-> xs]
PyDict(d) == [t |-> "dict", v |-> d]

\* bool(x)
Truthy(x) ==
    CASE x.t = "NoneType" -> FALSE
      [] x.t = "int" -> x.v /= 0
      [] x.t = "dict" -> DOMAIN x.v /= {}
      [] OTHER -> x.v /= <<>>

\* x or default
PyOr(x, default) == IF Truthy(x) THEN x ELSE default

\* str(x), as an f-string renders x
Format(x) ==
    CASE x.t = "NoneType" -> <<"None">>
      [] x.t = "int" -> <<ToString(x.v)>>
      [] OTHER -> x.v

\* d.get(key, default)
DictGet(d, key, default) == IF key \in DOMAIN d THEN d[key] ELSE default

Raised(kind) == [ok |-> FALSE, error |-> kind]
Returned(value) == [ok |-> TRUE, value |-> value]

(***************************************************************************)
(* main._build_context                                                     *)
(***************************************************************************)
\* the text an absent "date" key would be rendered as
UNKNOWN_DATE == PyStr(<<"unknown date">>)

\* item.get('date', 'unknown date'): the default applies only to a missing key
commit_date(item) == DictGet(item, "date", UNKNOWN_DATE)

\* f"  - {item.get('message', '').strip()} ({item.get('date', 'unknown date')})"
commit_line(item) ==
    <<" ", " ", "-", " ">> \o Strip(DictGet(item, "message", PyStr(<<>>)).v)
        \o <<" ", "(">> \o Format(commit_date(item)) \o <<")">>

\* f"{name} ({score})"
language_item(entry) == entry.name \o <<" ", "(", ToString(entry.score), ")">>

\* item.get('message', '').strip() raises AttributeError on a None message
build_context_raises(repo) ==
    \E i \in 1..Len(repo.recent_commits) :
        DictGet(repo.recent_commits[i], "message", PyStr(<<>>)).t /= "str"

build_context_text(repo) ==
    LET languages_line == Join(<<",", " ">>, [i \in 1..Len(repo.languages) |-> language_item(repo.languages[i])])
        commits_lines == Join(<<"\n">>, [i \in 1..Len(repo.recent_commits) |-> commit_line(repo.recent_commits[i])])
    IN  <<"Repository", ":", " ">> \o Format(PyOr(repo.full_name, repo.name)) \o <<"\n">>
        \o <<"Description", ":", " ">>
        \o Format(PyOr(repo.description, PyStr(<<"No description provided.">>))) \o <<"\n">>
        \o <<"Primary language", ":", " ">>
        \o Format(PyOr(repo.language, PyStr(<<"Unknown">>))) \o <<"\n">>
        \o <<"Languages", ":", " ">>
        \o (IF languages_line /= <<>> THEN languages_line ELSE <<"Not reported">>) \o <<"\n">>
        \o <<"Stars", ":", " ">> \o Format(repo.stars) \o <<",", " ", "Forks", ":", " ">>
        \o Format(repo.forks) \o <<",", " ", "Open issues", ":", " ">>
        \o Format(repo.open_issues) \o <<"\n">>
        \o <<"Topics", ":", " ">>
        \o (IF repo.topics /= <<>> THEN Join(<<",", " ">>, repo.topics) ELSE <<"None">>)
        \o <<"\n">>
        \o <<"Default branch", ":", " ">>
        \o Format(PyOr(repo.default_branch, PyStr(<<"main">>))) \o <<"\n">>
        \o <<"Recent commits", ":", "\n">>
        \o (IF commits_lines /= <<>> THEN commits_lines
            ELSE <<" ", " ", "-", " ", "No recent commits retrieved.">>)
        \o <<"\n">>
        \o <<"README excerpt", ":", "\n">>
        \o Format(PyOr(repo.readme_excerpt, PyStr(<<"No README available.">>)))

_build_context(repo) ==
    IF build_context_raises(repo) THEN Raised("AttributeError")
    ELSE Returned(build_context_text(repo))

(***************************************************************************)
(* ai_agent.generate_rule_based_summary                                    *)
(***************************************************************************)
DESCRIPTION_PREFIX == <<"Description", ":">>
LANGUAGES_PREFIX == <<"Languages", ":">>

\* a line is matched on the label alone, without its colon
starts_with_label(line, prefix) == StartsWith(line, <<prefix[1]>>)

\* line.startswith("Description:") / line.startswith("Languages:")
starts_with_prefix(line, prefix) == StartsWith(line, prefix)

\* the text after the first colon, not trimmed
value_after_colon_untrimmed(line) ==
    LET pieces == SplitOnce(line, <<":">>)
    IN  IF Len(pieces) < 2 THEN Raised("IndexError") ELSE Returned(pieces[2])

\* line.split(":", 1)[1].strip()
value_after_colon(line) ==
    LET pieces == SplitOnce(line, <<":">>)
    IN  IF Len(pieces) < 2 THEN Raised("IndexError") ELSE Returned(Strip(pieces[2]))

\* next((line.split(":", 1)[1].strip() for line in lines if line.startswith(prefix)), "")
first_prefixed_value(lines, prefix) ==
    LET hits == {i \in 1..Len(lines) : starts_with_prefix(lines[i], prefix)}
    IN  IF hits = {} THEN Returned(<<>>) ELSE value_after_colon(lines[Min(hits)])

NonBlank(line) == Strip(line) /= <<>>

\* [line.strip() for line in context.splitlines() if line.strip()]
context_lines(context) ==
    LET kept == SelectSeq(SplitLines(context), NonBlank)
    IN  [i \in 1..Len(kept) |-> Strip(kept[i])]

FixedList(items) == PyList([i \in 1..Len(items) |-> PyStr(items[i])])

GlossaryEntry(term, definition) ==
    PyDict([term |-> PyStr(<<term>>), definition |-> PyStr(<<definition>>)])

fallback_summary(description, languages) ==
    LET headline == IF description /= <<>> THEN description
                    ELSE <<"This repository does not include a description on GitHub.">>
    IN  PyDict([
          project_summary |-> PyStr(headline),
          how_it_helps_people |-> PyStr(<<"This project could be useful to people who are interested in exploring the code base. Provide an OpenAI API key to unlock a tailored explanation.">>),
          main_features |-> FixedList(<<
              <<"Automatic GitHub metadata gathering">>,
              <<"Displays the README excerpt if one exists">>,
              <<"Summarises recent commit messages for a quick update">> >>),
          how_it_works |-> FixedList(<<
              <<"The app downloads information directly from GitHub using their public API.">>,
              <<"It organises the repository details, language statistics, and README summary.">>,
              <<"Without an AI key it falls back to this simple overview to keep the experience working.">> >>),
          tech_stack |-> FixedList(<<
              <<"GitHub topics: ">>
                  \o (IF languages /= <<>> THEN languages ELSE <<"Not specified">>),
              <<"Primary language reported by GitHub: ">>
                  \o (IF languages /= <<>> THEN Split(languages, <<",">>)[1] ELSE <<"Unknown">>),
              <<"Recent commits are highlighted to show ongoing work.">> >>),
          getting_started |-> FixedList(<<
              <<"Paste a public GitHub repository URL into the form.">>,
              <<"Optionally provide an OpenAI API key so the AI guide can craft a custom explanation.">>,
              <<"Review the generated summary online or export it as a PDF.">> >>),
          next_steps |-> FixedList(<<
              <<"Add an OpenAI API key to unlock richer, human-friendly storytelling.">>,
              <<"Share the generated PDF with teammates who need a high-level overview.">>,
              <<"Explore the README and commits directly on GitHub for deeper technical context.">> >>),
          glossary |-> PyList(<<
              GlossaryEntry("Repository", "A storage space on GitHub that holds a project's files."),
              GlossaryEntry("Commit", "A snapshot of changes developers save to the project."),
              GlossaryEntry("README", "A document that usually explains what the project is about.") >>)
        ])

generate_rule_based_summary(context) ==
    LET lines == context_lines(context)
        description == first_prefixed_value(lines, DESCRIPTION_PREFIX)
        languages == first_prefixed_value(lines, LANGUAGES_PREFIX)
    IN  IF ~description.ok THEN description
        ELSE IF ~languages.ok THEN languages
        ELSE Returned(fallback_summary(description.value, languages.value))

(***************************************************************************)
(* main.RepositoryAnalysis / main.GlossaryItem: pydantic validation        *)
(***************************************************************************)
LIST_FIELDS == {"main_features", "how_it_works", "tech_stack", "getting_started", "next_steps"}

IsStr(x) == x.t = "str"

IsStrList(x) == x.t = "list" /\ \A i \in 1..Len(x.v) : IsStr(x.v[i])

\* GlossaryItem: term and definition, both required str
IsGlossaryItem(x) ==
    /\ x.t = "dict"
    /\ "term" \in DOMAIN x.v /\ IsStr(x.v["term"])
    /\ "definition" \in DOMAIN x.v /\ IsStr(x.v["definition"])

IsGlossary(x) == x.t = "list" /\ \A i \in 1..Len(x.v) : IsGlossaryItem(x.v[i])

\* whether RepositoryAnalysis.model_validate(result) accepts result
analysis_is_valid(result) ==
    /\ result.t = "dict"
    /\ "project_summary" \in DOMAIN result.v /\ IsStr(result.v["project_summary"])
    /\ "how_it_helps_people" \in DOMAIN result.v /\ IsStr(result.v["how_it_helps_people"])
    /\ \A f \in LIST_FIELDS : f \in DOMAIN result.v => IsStrList(result.v[f])
    /\ "glossary" \in DOMAIN result.v => IsGlossary(result.v["glossary"])

\* the validated model: declared fields only, list fields defaulting to []
validated_analysis(result) ==
    [f \in {"project_summary", "how_it_helps_people", "glossary"} \cup LIST_FIELDS |->
        DictGet(result.v, f, PyList(<<>>))]

RepositoryAnalysis_model_validate(result) ==
    IF analysis_is_valid(result) THEN Returned(validated_analysis(result))
    ELSE Raised("ValidationError")

(***************************************************************************)
(* github_client.fetch_repository_snapshot                                 *)
(***************************************************************************)
HTTP_OK == 200
README_EXCERPT_LIMIT == 4000

\* a response of the GitHub API, or the httpx exception the call raised instead
HttpResponse(status, body) ==
    [raised |-> FALSE, status |-> status, body |-> body, error |-> ""]
HttpRaised(kind) == [raised |-> TRUE, status |-> 0, body |-> PyNone, error |-> kind]
NoAnswer == [raised |-> FALSE, status |-> 0, body |-> PyNone, error |-> ""]

\* httpx.AsyncClient(timeout=20.0): a call that takes too long raises a
\* TimeoutException; one that cannot reach the host raises ConnectError
HTTPX_TIMEOUTS == {"ReadTimeout", "ConnectTimeout"}
HTTPX_ERRORS == HTTPX_TIMEOUTS \cup {"ConnectError"}
HttpFailures == {HttpRaised(kind) : kind \in HTTPX_ERRORS}

\* GitHubAPIError(f"Unable to retrieve repository: {status} {text}")
GitHubAPIError(resp) ==
    [ok |-> FALSE, error |-> "GitHubAPIError",
     detail |-> <<"Unable to retrieve repository: ", ToString(resp.status), " ">>
                    \o Format(resp.body)]

\* the languages facet taken from the body whatever the status
languages_any_status(resp) == resp.body

\* languages_resp.json() if languages_resp.status_code == 200 else {}
languages_from(resp) == IF resp.status = HTTP_OK THEN resp.body ELSE <<>>

\* raw_bytes.decode("utf-8", errors="ignore"): undecodable bytes are dropped
ValidByte(b) == b /= "\\xff"
decode_utf8_ignore(bytes) == SelectSeq(bytes, ValidByte)

\* the README facet: base64 content decoded, anything else the empty text
readme_from(resp) ==
    IF resp.status = HTTP_OK
    THEN LET readme_payload == resp.body.v
             encoding == DictGet(readme_payload, "encoding", PyStr(<<"base64">>))
         IN  IF encoding = PyStr(<<"base64">>) /\ "content" \in DOMAIN readme_payload
             THEN decode_utf8_ignore(readme_payload["content"].v)
             ELSE <<>>
    ELSE <<>>

\* {"message": commit.get("message", ""), "date": (commit.get("author") or {}).get("date")}
commit_summary(item) ==
    LET commit == DictGet(item.v, "commit", PyDict(<<>>)).v
        author == PyOr(DictGet(commit, "author", PyNone), PyDict(<<>>)).v
    IN  [message |-> DictGet(commit, "message", PyStr(<<>>)),
         date |-> DictGet(author, "date", PyNone)]

commits_from(resp) ==
    IF resp.status = HTTP_OK
    THEN [i \in 1..Len(resp.body) |-> commit_summary(resp.body[i])]
    ELSE <<>>

\* the dict fetch_repository_snapshot returns
snapshot_of(repo_data, languages_data, readme_text, commits) ==
    [name |-> DictGet(repo_data, "name", PyNone),
     full_name |-> DictGet(repo_data, "full_name", PyNone),
     description |-> DictGet(repo_data, "description", PyNone),
     html_url |-> DictGet(repo_data, "html_url", PyNone),
     default_branch |-> DictGet(repo_data, "default_branch", PyNone),
     license |-> DictGet(PyOr(DictGet(repo_data, "license", PyNone), PyDict(<<>>)).v,
                         "name", PyNone),
     stars |-> DictGet(repo_data, "stargazers_count", PyInt(0)),
     forks |-> DictGet(repo_data, "forks_count", PyInt(0)),
     open_issues |-> DictGet(repo_data, "open_issues_count", PyInt(0)),
     watchers |-> DictGet(repo_data, "subscribers_count", PyInt(0)),
     language |-> DictGet(repo_data, "language", PyNone),
     topics |-> DictGet(repo_data, "topics", PyList(<<>>)).v,
     languages |-> languages_data,
     recent_commits |-> commits,
     readme_excerpt |-> PyStr(Take(readme_text, README_EXCERPT_LIMIT))]

(***************************************************************************)
(* main.RepositoryInfo: pydantic validation of the snapshot                *)
(***************************************************************************)
OPTIONAL_STR_FIELDS ==
    {"name", "full_name", "description", "html_url", "default_branch", "license",
     "language", "readme_excerpt"}
INT_FIELDS == {"stars", "forks", "open_issues", "watchers"}

IsOptionalStr(x) == x.t \in {"str", "NoneType"}

repository_info_is_valid(snapshot) ==
    /\ \A f \in OPTIONAL_STR_FIELDS : IsOptionalStr(snapshot[f])
    /\ \A f \in INT_FIELDS : snapshot[f].t = "int"
    /\ \A i \in 1..Len(snapshot.recent_commits) :
          \A k \in DOMAIN snapshot.recent_commits[i] :
              IsOptionalStr(snapshot.recent_commits[i][k])

RepositoryInfo_model_validate(snapshot) ==
    IF repository_info_is_valid(snapshot) THEN Returned(snapshot)
    ELSE Raised("ValidationError")

(***************************************************************************)
(* ai_agent.call_ai_agent                                                  *)
(***************************************************************************)
DEFAULT_MODEL == <<"gpt-4o-mini">>

VALID_NARRATIVE ==
    PyDict([project_summary |-> PyStr(<<"A friendly tool.">>),
            how_it_helps_people |-> PyStr(<<"It saves time.">>),
            main_features |-> PyList(<<PyStr(<<"Fast">>)>>),
            glossary |-> PyList(<<PyDict([term |-> PyStr(<<"CLI">>),
                                          definition |-> PyStr(<<"A text interface.">>)])>>)])

\* json.loads(message) for the message texts the model draws from
json_loads(message) ==
    CASE message = <<"{}">> -> Returned(PyDict(<<>>))
      [] message = <<"[]">> -> Returned(PyList(<<>>))
      [] message = <<"{valid narrative}">> -> Returned(VALID_NARRATIVE)
      [] message = <<"{narrative without how_it_helps_people}">> ->
            Returned(PyDict([project_summary |-> PyStr(<<"A friendly tool.">>)]))
      [] message = <<"{narrative with tech_stack as text}">> ->
            Returned(PyDict([project_summary |-> PyStr(<<"A friendly tool.">>),
                             how_it_helps_people |-> PyStr(<<"It saves time.">>),
                             tech_stack |-> PyStr(<<"Python">>)]))
      [] OTHER -> Raised("JSONDecodeError")

\* what client.chat.completions.create did: raised, or returned this content
CompletionRaised(kind) == [raised |-> TRUE, error |-> kind, content |-> PyNone]
Completion(content) == [raised |-> FALSE, error |-> "", content |-> content]

call_ai_agent(completion) ==
    IF completion.raised THEN Raised(completion.error)
    ELSE LET message == PyOr(completion.content, PyStr(<<"{}">>)).v
             data == json_loads(message)
         IN  IF ~data.ok THEN data
             ELSE Returned([data |-> data.value, message |-> message])

(***************************************************************************)
(* main.analyze_repository: POST /api/analyze                              *)
(*                                                                         *)
(* One request.  The handler runs from one await to the next; each action  *)
(* below is the code between two awaits: the provider's (or the language   *)
(* model's) answer arrives and the handler runs up to the next call it     *)
(* issues, or to the response.                                             *)
(***************************************************************************)
NoResponse ==
    [status |-> 0, via |-> "pending", cause |-> "", has_result |-> FALSE,
     used_ai |-> FALSE, raw_response |-> PyNone, analysis |-> <<>>]

\* raise HTTPException(status_code=status, ...)
HTTPException(status, cause) ==
    [status |-> status, via |-> "HTTPException", cause |-> cause, has_result |-> FALSE,
     used_ai |-> FALSE, raw_response |-> PyNone, analysis |-> <<>>]

\* an exception no handler catches: the server answers 500 Internal Server Error
UnhandledException(cause) ==
    [status |-> 500, via |-> "unhandled", cause |-> cause, has_result |-> FALSE,
     used_ai |-> FALSE, raw_response |-> PyNone, analysis |-> <<>>]

\* JSONResponse(AnalyzeResponse(...).model_dump())
JSONResponse(analysis, used_ai_, raw_response_) ==
    [status |-> 200, via |-> "JSONResponse", cause |-> "", has_result |-> TRUE,
     used_ai |-> used_ai_, raw_response |-> raw_response_, analysis |-> analysis]

NoFetched == [repo_data |-> <<>>, languages_data |-> <<>>, readme_text |-> <<>>,
              commits |-> <<>>]
NoAnswers == [repo |-> NoAnswer, languages |-> NoAnswer, readme |-> NoAnswer,
              commits |-> NoAnswer]
NoAi == [calls |-> 0, model |-> <<>>, completion |-> Completion(PyNone),
         raised |-> FALSE, error |-> ""]
NoOwnerRepo == [ok |-> FALSE, error |-> "pending", detail |-> ""]
NoResult == Raised("pending")

\* the api_key test that lets an empty key through
api_key_not_none(payload_) == payload_.api_key.t /= "NoneType"

\* if payload.api_key:
has_api_key(payload_) == Truthy(payload_.api_key)

\* a handler that catches only the parsing errors of the AI response
catches_value_errors_only(kind) == kind = "JSONDecodeError"

\* except Exception: every exception the AI call can raise is caught
except_Exception(kind) == kind \in {"APIError", "APITimeoutError", "JSONDecodeError"}

\* raw_response = f"AI call failed: {exc}"
ai_failure_text(kind) == PyStr(<<"AI call failed: ", kind>>)

\* lines 146-158: validate the narrative and answer
respond(result, used_ai_, raw_response_) ==
    LET analysis == RepositoryAnalysis_model_validate(result)
    IN  IF ~analysis.ok THEN HTTPException(500, "NarrativeShapeError")
        ELSE JSONResponse(analysis.value, used_ai_, raw_response_)

\* result = generate_rule_based_summary(context), then lines 146-158
respond_with_fallback(context_, raw_response_) ==
    LET result == generate_rule_based_summary(context_)
    IN  IF ~result.ok THEN UnhandledException(result.error)
        ELSE respond(result.value, FALSE, raw_response_)

VARIABLES
    pc,             \* where the handler is: Received, Await*, Done
    payload,        \* the AnalyzeRequest
    owner_repo,     \* what extract_owner_repo returned
    calls,          \* the GitHub API calls issued so far, in order
    answers,        \* what each call returned
    fetch_state,    \* fetch_repository_snapshot: pending, ok, GitHubAPIError, TransportError
    fetched,        \* the fetcher's locals
    repo_info,      \* the validated RepositoryInfo
    context,        \* the text _build_context returned
    ai,             \* the language-model call: how often issued, with what, what it did
    result,         \* the narrative dict the handler validates (from the AI or the fallback)
    response        \* the HTTP response of the request

reqVars == <<pc, payload, owner_repo, calls, answers, fetch_state, fetched,
             repo_info, context, ai, result, response>>
vars == <<urlVars, reqVars, fallbackVars, pdfVars>>

\* lines 115-121: parse the URL, then issue the repository-metadata call
AnalyzeStart ==
    /\ pc = "Received"
    /\ LET parsed == extract_owner_repo(payload.repo_url.v)
       IN  /\ owner_repo' = parsed
           /\ IF ~parsed.ok
              THEN /\ response' = HTTPException(400, "InvalidUrl")
                   /\ pc' = "Done"
                   /\ UNCHANGED calls
              ELSE /\ calls' = Append(calls, "repo")
                   /\ pc' = "AwaitRepo"
                   /\ UNCHANGED response
    /\ UNCHANGED <<payload, answers, fetch_state, fetched, repo_info, context, ai, result>>
    /\ UNCHANGED otherVars

\* an httpx exception (timeout, connection error) leaves the fetcher and the handler
TransportFailure(call, resp) ==
    /\ answers' = [answers EXCEPT ![call] = resp]
    /\ fetch_state' = "TransportError"
    /\ response' = UnhandledException(resp.error)
    /\ pc' = "Done"
    /\ UNCHANGED <<payload, owner_repo, calls, fetched, repo_info, context, ai, result>>

(***************************************************************************)
(* What the GitHub API and the language model may answer.                  *)
(***************************************************************************)
NON_SUCCESS == {404, 403}

NotFoundBody == PyStr(<<"{\"message\": \"Not Found\"}">>)

\* a repository with every field the fetcher reads
RichRepoBody(description) ==
    PyDict([name |-> PyStr(<<"r">>),
            full_name |-> PyStr(<<"o", "/", "r">>),
            description |-> description,
            html_url |-> PyStr(<<"https:", "/", "/", "github.com", "/", "o", "/", "r">>),
            default_branch |-> PyStr(<<"trunk">>),
            license |-> PyDict([name |-> PyStr(<<"MIT License">>)]),
            stargazers_count |-> PyInt(5),
            forks_count |-> PyInt(1),
            open_issues_count |-> PyInt(3),
            subscribers_count |-> PyInt(2),
            language |-> PyStr(<<"Python">>),
            topics |-> PyList(<< <<"cli">>, <<"tool">> >>)])

\* a repository whose nullable fields are null and whose counters are missing
BareRepoBody ==
    PyDict([name |-> PyStr(<<"r">>),
            full_name |-> PyNone,
            description |-> PyNone,
            html_url |-> PyNone,
            default_branch |-> PyNone,
            license |-> PyNone,
            language |-> PyNone])

FOO_BAR == <<"Foo", " ", "bar.">>

RequestDescriptions == {PyNone, PyStr(<<>>), PyStr(FOO_BAR)}

RepoBodies == {RichRepoBody(d) : d \in RequestDescriptions} \cup {BareRepoBody}

RepoResponses ==
    {HttpResponse(HTTP_OK, b) : b \in RepoBodies}
        \cup {HttpResponse(s, NotFoundBody) : s \in NON_SUCCESS} \cup HttpFailures

\* the JSON object of an error answer, read as a mapping
NotFoundMap == <<[name |-> <<"message">>, score |-> 0]>>

LanguageMaps ==
    {<<>>, <<[name |-> <<"Python">>, score |-> 900], [name |-> <<"Go">>, score |-> 100]>>}

LanguagesResponses ==
    {HttpResponse(HTTP_OK, m) : m \in LanguageMaps}
        \cup {HttpResponse(404, NotFoundMap)} \cup HttpFailures

\* README bytes: text, one undecodable byte, and lines that look like context labels
README_BYTES ==
    <<"Hello", "\\xff", "\n", "Description", ":", " ", "Evil", "\n",
      "Languages", ":", " ", "Cobol">>

ReadmePayloads ==
    {PyDict([encoding |-> PyStr(<<"base64">>), content |-> PyStr(README_BYTES)]),
     PyDict([content |-> PyStr(<<>>)]),
     PyDict([encoding |-> PyStr(<<"none">>), content |-> PyStr(README_BYTES)])}

ReadmeResponses ==
    {HttpResponse(HTTP_OK, p) : p \in ReadmePayloads}
        \cup {HttpResponse(404, NotFoundBody)} \cup HttpFailures

\* commit records: with an author date, with a null author, without an author key
CommitItems ==
    {PyDict([commit |-> PyDict([message |-> PyStr(<<"Fix", " ", "bug">>),
                                author |-> PyDict([date |-> PyStr(<<"2024-01-01">>)])])]),
     PyDict([commit |-> PyDict([message |-> PyStr(<<" ", "Add", " ", "docs", "\n">>),
                                author |-> PyNone])]),
     PyDict([commit |-> PyDict([message |-> PyStr(<<"wip">>)])])}

CommitLists == SeqsUpTo(CommitItems, MaxCommits)

CommitsResponses ==
    {HttpResponse(HTTP_OK, l) : l \in CommitLists}
        \cup {HttpResponse(404, <<>>)} \cup HttpFailures

Completions ==
    {CompletionRaised("APIError"), CompletionRaised("APITimeoutError"),
     Completion(PyNone),
     Completion(PyStr(<<"{valid narrative}">>)),
     Completion(PyStr(<<"{narrative without how_it_helps_people}">>)),
     Completion(PyStr(<<"{narrative with tech_stack as text}">>)),
     Completion(PyStr(<<"[]">>)),
     Completion(PyStr(<<"Sure, here is the JSON you asked for">>))}

RequestUrls ==
    {<<"https:", "/", "/", "github.com", "/", "o", "/", "r", ".git">>,
     <<"https:", "/", "/", "github.com">>,
     <<"github.com", "/", "o">>,
     <<"https:", "/", "/", "example.org", "/", "o", "/", "r">>}

Payloads ==
    {[repo_url |-> PyStr(u), api_key |-> k, model |-> m] :
        u \in RequestUrls,
        k \in {PyNone, PyStr(<<>>), PyStr(<<"sk-key">>)},
        m \in {PyNone, PyStr(<<"gpt-4o">>)}}

(***************************************************************************)
(* The handler, continued.                                                 *)
(***************************************************************************)
\* lines 38-45: the metadata answer gates the fetch; then the languages call
RepoAnswer ==
    /\ UNCHANGED otherVars
    /\ pc = "AwaitRepo"
    /\ \E resp \in RepoResponses :
          IF resp.raised THEN TransportFailure("repo", resp)
          ELSE /\ answers' = [answers EXCEPT !.repo = resp]
               /\ IF resp.status /= HTTP_OK
                  THEN /\ fetch_state' = "GitHubAPIError"
                       /\ response' = HTTPException(502, "UpstreamError")
                       /\ pc' = "Done"
                       /\ UNCHANGED <<calls, fetched>>
                  ELSE /\ fetched' = [fetched EXCEPT !.repo_data = resp.body.v]
                       /\ calls' = Append(calls, "languages")
                       /\ pc' = "AwaitLanguages"
                       /\ UNCHANGED <<fetch_state, response>>
               /\ UNCHANGED <<payload, owner_repo, repo_info, context, ai, result>>

\* lines 45-49: the languages answer, then the README call
LanguagesAnswer ==
    /\ UNCHANGED otherVars
    /\ pc = "AwaitLanguages"
    /\ \E resp \in LanguagesResponses :
          IF resp.raised THEN TransportFailure("languages", resp)
          ELSE /\ answers' = [answers EXCEPT !.languages = resp]
               /\ fetched' = [fetched EXCEPT !.languages_data = languages_from(resp)]
               /\ calls' = Append(calls, "readme")
               /\ pc' = "AwaitReadme"
               /\ UNCHANGED <<payload, owner_repo, fetch_state, repo_info, context, ai,
                              result, response>>

\* lines 49-62: the README answer, then the commits call
ReadmeAnswer ==
    /\ UNCHANGED otherVars
    /\ pc = "AwaitReadme"
    /\ \E resp \in ReadmeResponses :
          IF resp.raised THEN TransportFailure("readme", resp)
          ELSE /\ answers' = [answers EXCEPT !.readme = resp]
               /\ fetched' = [fetched EXCEPT !.readme_text = readme_from(resp)]
               /\ calls' = Append(calls, "commits")
               /\ pc' = "AwaitCommits"
               /\ UNCHANGED <<payload, owner_repo, fetch_state, repo_info, context, ai,
                              result, response>>

\* github_client lines 63-92 and main lines 125-158: the commits answer completes
\* the snapshot; the handler validates it, builds the context and either issues
\* the language-model call or answers with the fallback
CommitsAnswer ==
    /\ UNCHANGED otherVars
    /\ pc = "AwaitCommits"
    /\ \E resp \in CommitsResponses :
          IF resp.raised THEN TransportFailure("commits", resp)
          ELSE LET commits == commits_from(resp)
                   snapshot == snapshot_of(fetched.repo_data, fetched.languages_data,
                                           fetched.readme_text, commits)
                   info == RepositoryInfo_model_validate(snapshot)
                   built == IF info.ok THEN _build_context(info.value) ELSE info
               IN  /\ answers' = [answers EXCEPT !.commits = resp]
                   /\ fetched' = [fetched EXCEPT !.commits = commits]
                   /\ fetch_state' = "ok"
                   /\ IF ~built.ok
                      THEN /\ response' = UnhandledException(built.error)
                           /\ pc' = "Done"
                           /\ UNCHANGED <<repo_info, context, ai, result>>
                      ELSE /\ repo_info' = info.value
                           /\ context' = built.value
                           /\ IF has_api_key(payload)
                              THEN /\ ai' = [ai EXCEPT
                                                !.calls = @ + 1,
                                                !.model = PyOr(payload.model,
                                                               PyStr(DEFAULT_MODEL)).v]
                                   /\ pc' = "AwaitAI"
                                   /\ UNCHANGED <<result, response>>
                              ELSE /\ result' = generate_rule_based_summary(built.value)
                                   /\ response' = respond_with_fallback(built.value, PyNone)
                                   /\ pc' = "Done"
                                   /\ UNCHANGED ai
                   /\ UNCHANGED <<payload, owner_repo, calls>>

\* lines 134-158: the language-model call returns or raises; the handler keeps its
\* narrative or falls back, validates and answers
AiAnswer ==
    /\ pc = "AwaitAI"
    /\ \E completion \in Completions :
          LET outcome == call_ai_agent(completion)
          IN  /\ ai' = [ai EXCEPT !.completion = completion, !.raised = ~outcome.ok,
                                 !.error = IF outcome.ok THEN "" ELSE outcome.error]
              /\ result' = IF outcome.ok THEN Returned(outcome.value.data)
                            ELSE IF except_Exception(outcome.error)
                            THEN generate_rule_based_summary(context)
                            ELSE NoResult
              /\ response' =
                    IF outcome.ok
                    THEN respond(outcome.value.data, TRUE, PyStr(outcome.value.message))
                    ELSE IF except_Exception(outcome.error)
                    THEN respond_with_fallback(context, ai_failure_text(outcome.error))
                    ELSE UnhandledException(outcome.error)
    /\ pc' = "Done"
    /\ UNCHANGED <<payload, owner_repo, calls, answers, fetch_state, fetched, repo_info,
                   context>>
    /\ UNCHANGED otherVars

(***************************************************************************)
(* pdf_generator.build_pdf, called by main.generate_pdf                    *)
(*                                                                         *)
(* The document is the sequence of blocks written to it, in order; the     *)
(* model keeps it on one page.  Fonts, colours, page breaks and the final  *)
(* latin-1 encoding of the byte stream are left out.                       *)
(***************************************************************************)
Block(kind, text) == [kind |-> kind, text |-> text]

\* AnalysisPDF.header / AnalysisPDF.footer
header == <<Block("header", <<"Gitalyzer Report">>)>>
footer == <<Block("footer", <<"Page ", "1">>)>>

\* _write_section(pdf, title, body): the heading always, the body when truthy
_write_section(title, body) ==
    <<Block("heading", <<title>>)>>
        \o (IF Truthy(body) THEN <<Block("body", body.v)>> ELSE <<>>)

\* f"<bullet mark> {item}"
bullet(item) == Block("bullet", <<"bullet-mark", " ">> \o item.v)

\* _write_list(pdf, items)
_write_list(items) == [i \in 1..Len(items) |-> bullet(items[i])]

\* if analysis.get(field): _write_section(pdf, title); _write_list(pdf, analysis[field])
list_section(analysis, field, title) ==
    LET items == DictGet(analysis, field, PyNone)
    IN  IF Truthy(items) THEN _write_section(title, PyNone) \o _write_list(items.v)
        ELSE <<>>

\* a glossary entry is written only when term and definition are both non-empty
glossary_entry(entry) ==
    LET term == DictGet(entry.v, "term", PyNone)
        definition == DictGet(entry.v, "definition", PyNone)
    IN  IF Truthy(term) /\ Truthy(definition)
        THEN <<Block("term", term.v), Block("definition", definition.v)>>
        ELSE <<>>

RECURSIVE glossary_entries(_)
glossary_entries(entries) ==
    IF entries = <<>> THEN <<>>
    ELSE glossary_entry(Head(entries)) \o glossary_entries(Tail(entries))

glossary_section(analysis) ==
    LET glossary == DictGet(analysis, "glossary", PyList(<<>>))
    IN  IF Truthy(glossary)
        THEN _write_section("Glossary", PyNone) \o glossary_entries(glossary.v)
        ELSE <<>>

build_pdf(repo_name, analysis) ==
    LET summary == DictGet(analysis, "project_summary", PyNone)
    IN  header
        \o <<Block("title", PyOr(PyStr(repo_name), PyStr(<<"Repository Report">>)).v)>>
        \o (IF Truthy(summary) THEN _write_section("Project Summary", summary) ELSE <<>>)
        \o _write_section("How it helps people",
                          DictGet(analysis, "how_it_helps_people", PyNone))
        \o list_section(analysis, "main_features", "Main features")
        \o list_section(analysis, "how_it_works", "How it works")
        \o list_section(analysis, "tech_stack", "Tech explained simply")
        \o list_section(analysis, "getting_started", "Getting started")
        \o list_section(analysis, "next_steps", "Next steps")
        \o glossary_section(analysis)
        \o footer

(***************************************************************************)
(* Specifications.  Each one drives one entry point; the state of the      *)
(* others stays idle.                                                      *)
(***************************************************************************)
NotRun == Raised("pending")
NoInfo == [recent_commits |-> <<>>]

UrlIdle ==
    /\ urlCase = [url |-> <<>>, form |-> FALSE, owner |-> NoName, repo |-> NoName]
    /\ urlResult = NoUrlResult

ReqIdle ==
    /\ pc = "Idle"
    /\ payload = [repo_url |-> PyStr(<<>>), api_key |-> PyNone, model |-> PyNone]
    /\ owner_repo = NoOwnerRepo
    /\ calls = <<>>
    /\ answers = NoAnswers
    /\ fetch_state = "pending"
    /\ fetched = NoFetched
    /\ repo_info = NoInfo
    /\ context = <<>>
    /\ ai = NoAi
    /\ result = NoResult
    /\ response = NoResponse

FallbackIdle ==
    /\ ctxCase = [text |-> <<>>, built |-> FALSE, description |-> PyNone]
    /\ fallbackResult = NotRun

PdfIdle ==
    /\ pdfRequest = [repo_name |-> <<>>, analysis |-> <<>>]
    /\ pdfDocument = <<>>

(*********************** Spec: one /api/analyze request ********************)
Init ==
    /\ pc = "Received"
    /\ payload \in Payloads
    /\ owner_repo = NoOwnerRepo
    /\ calls = <<>>
    /\ answers = NoAnswers
    /\ fetch_state = "pending"
    /\ fetched = NoFetched
    /\ repo_info = NoInfo
    /\ context = <<>>
    /\ ai = NoAi
    /\ result = NoResult
    /\ response = NoResponse
    /\ UrlIdle /\ FallbackIdle /\ PdfIdle

Next ==
    \/ AnalyzeStart
    \/ RepoAnswer
    \/ LanguagesAnswer
    \/ ReadmeAnswer
    \/ CommitsAnswer
    \/ AiAnswer

Spec == Init /\ [][Next]_vars

(*********************** SpecUrl: extract_owner_repo ***********************)
UrlTokens == {"https:", "/", "github.com", ".git", "o", "r", " "}

OwnerTokens == {"o", "-"}
RepoTokens == {"r", "-", "github.com"}

\* GitHub names: non-empty, an owner neither starts nor ends with a hyphen
OwnerNames == {s \in SeqsUpTo(OwnerTokens, MaxNameLen) :
                  s /= <<>> /\ s[1] /= "-" /\ s[Len(s)] /= "-"}
RepoNames == SeqsUpTo(RepoTokens, MaxNameLen) \ {<<>>}

Schemes == {<<>>, <<"https:", "/", "/">>, <<"http:", "/", "/">>}

\* a valid form of owner/repo: [scheme]github.com/owner/repo[.git][/]
UrlForm(scheme, owner, repo, git, slash) ==
    scheme \o GITHUB_MARKER \o <<"/">> \o owner \o <<"/">> \o repo
        \o (IF git THEN <<".git">> ELSE <<>>) \o (IF slash THEN <<"/">> ELSE <<>>)

FreeUrlCases ==
    {[url |-> u, form |-> FALSE, owner |-> NoName, repo |-> NoName] :
        u \in SeqsUpTo(UrlTokens, MaxUrlLen)}

ValidUrlCases ==
    {[url |-> UrlForm(s, o, r, g, t), form |-> TRUE, owner |-> o, repo |-> r] :
        s \in Schemes, o \in OwnerNames, r \in RepoNames, g \in BOOLEAN, t \in BOOLEAN}

InitUrl ==
    /\ urlCase \in FreeUrlCases \cup ValidUrlCases
    /\ urlResult = NoUrlResult
    /\ ReqIdle /\ FallbackIdle /\ PdfIdle

ExtractOwnerRepo ==
    /\ urlResult = NoUrlResult
    /\ urlResult' = extract_owner_repo(urlCase.url)
    /\ UNCHANGED <<urlCase, reqVars, fallbackVars, pdfVars>>

NextUrl == ExtractOwnerRepo

SpecUrl == InitUrl /\ [][NextUrl]_vars

UrlDone == urlResult /= NoUrlResult

(*********************** SpecFallback: generate_rule_based_summary *********)
\* lines a context text may hold
ContextLines ==
    {<<>>,
     <<" ">>,
     DESCRIPTION_PREFIX,
     DESCRIPTION_PREFIX \o <<" ">> \o FOO_BAR,
     <<" ">> \o DESCRIPTION_PREFIX \o <<" ", "a", ":", "b", " ">>,
     <<"Description", " ", "Foo">>,
     LANGUAGES_PREFIX \o <<" ", "Python", " ", "(", "900", ")", ",", " ", "Go", " ", "(", "100", ")">>,
     LANGUAGES_PREFIX,
     <<"Languages">>,
     <<"README", " ", "text">>}

FreeContextCases ==
    {[text |-> Join(<<"\n">>, ls), built |-> FALSE, description |-> PyNone] :
        ls \in SeqsUpTo(ContextLines, MaxContextLines)}

\* descriptions a snapshot may carry: none, empty, plain, padded, blank, two lines
SnapshotDescriptions ==
    RequestDescriptions
        \cup {PyStr(<<" ">> \o FOO_BAR \o <<" ">>), PyStr(<<" ">>),
              PyStr(<<"Foo", "\n", "bar.">>)}

\* the RepositoryInfo records the handler can hold after a successful fetch
RepositoryInfos ==
    {snapshot_of(RichRepoBody(d).v, languages_from(l), readme_from(r), commits_from(c)) :
        d \in SnapshotDescriptions,
        l \in {x \in LanguagesResponses : ~x.raised},
        r \in {HttpResponse(HTTP_OK, PyDict([content |-> PyStr(README_BYTES)])),
               HttpResponse(404, NotFoundBody)},
        c \in {x \in CommitsResponses : ~x.raised}}

BuiltContextCases ==
    {[text |-> _build_context(info).value, built |-> TRUE,
      description |-> info.description] : info \in RepositoryInfos}

InitFallback ==
    /\ ctxCase \in FreeContextCases \cup BuiltContextCases
    /\ fallbackResult = NotRun
    /\ UrlIdle /\ ReqIdle /\ PdfIdle

GenerateFallback ==
    /\ fallbackResult = NotRun
    /\ fallbackResult' = generate_rule_based_summary(ctxCase.text)
    /\ UNCHANGED <<ctxCase, urlVars, reqVars, pdfVars>>

NextFallback == GenerateFallback

SpecFallback == InitFallback /\ [][NextFallback]_vars

FallbackDone == fallbackResult /= NotRun

(*********************** SpecPdf: POST /api/generate-pdf *******************)
ListValues == {PyList(l) : l \in SeqsUpTo({PyStr(<<"item">>)}, MaxListLen)}

GlossaryItems ==
    {PyDict([term |-> PyStr(<<"Term">>), definition |-> PyStr(<<"Meaning">>)]),
     PyDict([term |-> PyStr(<<>>), definition |-> PyStr(<<"Meaning">>)])}

GlossaryValues == {PyList(l) : l \in SeqsUpTo(GlossaryItems, MaxListLen)}

TextValues == {PyStr(<<>>), PyStr(<<"Some", " ", "text">>)}

\* analysis.model_dump() of a validated RepositoryAnalysis
Analyses ==
    [project_summary : TextValues, how_it_helps_people : TextValues,
     main_features : ListValues, how_it_works : ListValues, tech_stack : ListValues,
     getting_started : ListValues, next_steps : ListValues, glossary : GlossaryValues]

InitPdf ==
    /\ pdfRequest \in [repo_name : {<<>>, <<"repo">>}, analysis : Analyses]
    /\ pdfDocument = <<>>
    /\ UrlIdle /\ ReqIdle /\ FallbackIdle

\* main.generate_pdf: build_pdf(payload.repo_name, payload.analysis.model_dump())
GeneratePdf ==
    /\ pdfDocument = <<>>
    /\ pdfDocument' = build_pdf(pdfRequest.repo_name, pdfRequest.analysis)
    /\ UNCHANGED <<pdfRequest, urlVars, reqVars, fallbackVars>>

NextPdf == GeneratePdf

SpecPdf == InitPdf /\ [][NextPdf]_vars

PdfDone == pdfDocument /= <<>>

(***************************************************************************)
(* Claims about extract_owner_repo (checked under SpecUrl).                *)
(***************************************************************************)
\* the path segments that follow the first domain marker of a URL
SegmentsAfterMarker(u) ==
    LET path == Split(Drop(u, Find(u, GITHUB_MARKER)), <<"/">>)
    IN  {i \in 1..Len(path) : Strip(path[i]) /= <<>>}

LacksMarker(u) == \A i \in 1..Len(u) : u[i] /= "github.com"

LacksSecondSegment(u) == ~LacksMarker(u) /\ Cardinality(SegmentsAfterMarker(u)) < 2

\* C4: a URL without the "github.com" marker, or without a second path segment
\* after it, makes extract_owner_repo raise ValueError; it never returns a pair.
C4_InvalidUrlRejected ==
    (UrlDone /\ (LacksMarker(urlCase.url) \/ LacksSecondSegment(urlCase.url)))
        => ~urlResult.ok

\* C5: every valid form of owner/repo (scheme or none, ".git" or none, trailing
\* slash or none) makes extract_owner_repo return the pair (owner, repo).
C5_ValidFormsSamePair ==
    (UrlDone /\ urlCase.form)
        => (urlResult.ok /\ urlResult.owner = urlCase.owner
                         /\ urlResult.repo = urlCase.repo)

\* a form with scheme, ".git" suffix and trailing slash has been parsed to its pair
C5_Witness ==
    /\ UrlDone
    /\ urlCase.form
    /\ StartsWith(urlCase.url, <<"https:", "/", "/">>)
    /\ EndsWith(urlCase.url, <<".git", "/">>)
    /\ urlCase.repo = <<"github.com">>
    /\ urlResult.ok
    /\ urlResult.repo = urlCase.repo

(***************************************************************************)
(* Claims about one /api/analyze request (checked under Spec).             *)
(***************************************************************************)
Done == pc = "Done"

UrlParseFailed == ~owner_repo.ok

FetchFailed == fetch_state \in {"GitHubAPIError", "TransportError"}

\* C1: a finished request has exactly one outcome, decided in this order: 400 when
\* URL parsing failed; else 502 when the snapshot fetch failed; else 500 when the
\* produced narrative fails schema validation; else 200.  No other step ends the
\* request with a failure.
C1_OutcomeOrder ==
    Done =>
        /\ UrlParseFailed => response.status = 400
        /\ (~UrlParseFailed /\ FetchFailed) => response.status = 502
        /\ (~UrlParseFailed /\ ~FetchFailed) =>
              /\ result.ok
              /\ ~analysis_is_valid(result.value) => response.status = 500
              /\ analysis_is_valid(result.value) => response.status = 200
        /\ response.via /= "unhandled"

\* C2: with an api_key, a valid URL and a successful fetch, a language-model call
\* that throws still ends in 200 with used_ai = false, a non-null raw_response
\* describing the failure, and the fallback narrative of the same context.
C2_AiFailureRecovered ==
    (Done /\ has_api_key(payload) /\ owner_repo.ok /\ fetch_state = "ok" /\ ai.raised)
        => /\ response.status = 200
           /\ response.has_result
           /\ response.used_ai = FALSE
           /\ response.raw_response.t = "str"
           /\ StartsWith(response.raw_response.v, <<"AI call failed: ">>)
           /\ Contains(response.raw_response.v, <<ai.error>>)
           /\ generate_rule_based_summary(context).ok
           /\ response.analysis
                 = validated_analysis(generate_rule_based_summary(context).value)

\* the language-model service raised an API error and the request was answered 200
C2_Witness ==
    /\ Done
    /\ ai.calls = 1
    /\ ai.raised
    /\ ai.completion.raised
    /\ ai.error = "APIError"
    /\ response.status = 200
    /\ response.raw_response = PyStr(<<"AI call failed: ", "APIError">>)

\* a GitHub API call of the request ran into the client's timeout
ProviderTimedOut ==
    \E call \in DOMAIN answers :
        answers[call].raised /\ answers[call].error \in HTTPX_TIMEOUTS

\* the language-model call of the request ran into its timeout
AiTimedOut == ai.raised /\ ai.error = "APITimeoutError"

\* the outcomes the handler declares: 400, 502, 500 for a narrative of the wrong
\* shape, and 200
DeclaredOutcome ==
    /\ response.via \in {"HTTPException", "JSONResponse"}
    /\ response.status \in {400, 502, 500, 200}
    /\ response.status = 500 => response.cause = "NarrativeShapeError"

AiTimeoutRecovered ==
    (Done /\ AiTimedOut)
        => /\ response.status = 200
           /\ response.used_ai = FALSE
           /\ response.raw_response = ai_failure_text("APITimeoutError")

\* C11: a timeout on an outbound call surfaces as the error kind of that call: a
\* timeout of a GitHub API call ends the request with 502 UpstreamError, a timeout
\* of the language-model call is recovered as an AI failure (200 with the
\* fallback), and no timeout ends the request outside the declared outcomes.
C11_TimeoutSurfacesAsErrorKind ==
    /\ (Done /\ ProviderTimedOut)
          => /\ response.status = 502
             /\ response.cause = "UpstreamError"
    /\ AiTimeoutRecovered
    /\ (Done /\ (ProviderTimedOut \/ AiTimedOut)) => DeclaredOutcome

ApiKeyMissing == payload.api_key.t = "NoneType" \/ payload.api_key = PyStr(<<>>)

\* C3: when the api_key is missing (null or empty) the language-model service is
\* never called, and every response that carries a result has used_ai = false and
\* raw_response = null.
C3_NoKeyNoAi ==
    ApiKeyMissing =>
        /\ ai.calls = 0
        /\ pc /= "AwaitAI"
        /\ response.has_result =>
              (response.used_ai = FALSE /\ response.raw_response.t = "NoneType")

\* a request with an empty api_key was answered with a result
C3_Witness ==
    /\ Done
    /\ payload.api_key = PyStr(<<>>)
    /\ response.has_result
    /\ response.status = 200
    /\ ai.calls = 0

Answered(call) == answers[call].status /= 0

\* the README text GitHub sent, when it sent one as base64 content
ReadmeSent(resp) ==
    IF /\ "content" \in DOMAIN resp.body.v
       /\ ("encoding" \in DOMAIN resp.body.v => resp.body.v["encoding"].v = <<"base64">>)
    THEN SelectSeq(resp.body.v["content"].v, LAMBDA b : b /= "\\xff")
    ELSE <<>>

\* C6: the fetch fails with GitHubAPIError exactly when the metadata call returned
\* a non-success status, and then no other call is issued; a non-success status of
\* the languages, README or commits call never fails the fetch: that facet is
\* empty and the other facets keep what was fetched.
C6_MetadataGatesFetch ==
    /\ fetch_state = "GitHubAPIError"
          <=> (Answered("repo") /\ answers.repo.status /= 200)
    /\ fetch_state = "GitHubAPIError" => calls = <<"repo">>
    /\ (answers.repo.status = 200 /\ Answered("languages") /\ Answered("readme")
            /\ Answered("commits")) => fetch_state = "ok"
    /\ fetch_state = "ok" =>
          /\ calls = <<"repo", "languages", "readme", "commits">>
          /\ fetched.languages_data
                = (IF answers.languages.status = 200 THEN answers.languages.body ELSE <<>>)
          /\ fetched.readme_text
                = (IF answers.readme.status = 200 THEN ReadmeSent(answers.readme) ELSE <<>>)
          /\ IF answers.commits.status = 200
             THEN /\ Len(fetched.commits) = Len(answers.commits.body)
                  /\ \A i \in 1..Len(fetched.commits) :
                        fetched.commits[i].message
                            = answers.commits.body[i].v.commit.v.message
             ELSE fetched.commits = <<>>

\* a fetch succeeded although the languages and commits calls answered 404, and
\* the README kept its fetched text
C6_Witness ==
    /\ fetch_state = "ok"
    /\ answers.languages.status = 404
    /\ answers.commits.status = 404
    /\ answers.readme.status = 200
    /\ fetched.languages_data = <<>>
    /\ fetched.commits = <<>>
    /\ fetched.readme_text /= <<>>

\* the bullet the claim expects for a commit: message, then its date or "unknown date"
ExpectedCommitLine(item) ==
    <<"\n", " ", " ", "-", " ">> \o Strip(item.message.v) \o <<" ", "(">>
        \o (IF item.date.t = "NoneType" THEN <<"unknown date">> ELSE item.date.v)
        \o <<")", "\n">>

ContextBuilt == fetch_state = "ok" /\ response.via /= "unhandled"

\* C10: the context holds, for every recent commit, one indented bullet with its
\* message and its date in parentheses, "unknown date" standing for a null date;
\* building the context never fails.
C10_CommitLines ==
    /\ fetch_state = "ok" => ~(response.via = "unhandled" /\ response.cause = "AttributeError")
    /\ ContextBuilt =>
          \A i \in 1..Len(repo_info.recent_commits) :
              Contains(context, ExpectedCommitLine(repo_info.recent_commits[i]))

(***************************************************************************)
(* Claims about generate_rule_based_summary (checked under SpecFallback).  *)
(***************************************************************************)
\* the value a labelled line carries: the text after the prefix, trimmed
LabelValue(line, prefix) == Strip(Drop(line, Len(prefix)))

\* the trimmed, non-blank lines of a text that start with a prefix, in order
LabelledLines(text, prefix) ==
    SelectSeq(context_lines(text), LAMBDA l : StartsWith(l, prefix))

Narrative == fallbackResult.value.v

\* C8: for every context text generate_rule_based_summary returns, without error,
\* a narrative that passes validation: both texts present, every list field a
\* list of text, every glossary entry with a term and a definition.
C8_FallbackTotalAndValid ==
    FallbackDone =>
        /\ fallbackResult.ok
        /\ analysis_is_valid(fallbackResult.value)
        /\ Narrative["project_summary"].t = "str"
        /\ Narrative["how_it_helps_people"].t = "str"
        /\ \A f \in LIST_FIELDS :
              /\ f \in DOMAIN Narrative
              /\ Narrative[f].t = "list"
              /\ \A i \in 1..Len(Narrative[f].v) : Narrative[f].v[i].t = "str"
        /\ \A i \in 1..Len(Narrative["glossary"].v) :
              {"term", "definition"} \subseteq DOMAIN Narrative["glossary"].v[i].v

\* the fallback ran on a text with a label that lacks its colon, and on the empty text
C8_Witness ==
    /\ FallbackDone
    /\ fallbackResult.ok
    /\ ~ctxCase.built
    /\ Contains(ctxCase.text, <<"Description", " ", "Foo">>)
    /\ Narrative["project_summary"].v
          = <<"This repository does not include a description on GitHub.">>

\* C9 as stated, for every context text: when some line carries a non-empty
\* Description: value and some line carries the Languages: prefix,
\* project_summary is the value of such a Description line and the first
\* tech_stack entry contains the value of a Languages line.
C9_AnyDescriptionLine ==
    FallbackDone =>
        LET ds == LabelledLines(ctxCase.text, DESCRIPTION_PREFIX)
            ls == LabelledLines(ctxCase.text, LANGUAGES_PREFIX)
        IN  ((\E i \in 1..Len(ds) : LabelValue(ds[i], DESCRIPTION_PREFIX) /= <<>>)
                /\ ls /= <<>>)
              => /\ fallbackResult.ok
                 /\ \E i \in 1..Len(ds) :
                       /\ LabelValue(ds[i], DESCRIPTION_PREFIX) /= <<>>
                       /\ Narrative["project_summary"].v
                             = LabelValue(ds[i], DESCRIPTION_PREFIX)
                 /\ \E j \in 1..Len(ls) :
                       Contains(Narrative["tech_stack"].v[1].v,
                                LabelValue(ls[j], LANGUAGES_PREFIX))

SingleLine(text) == \A i \in 1..Len(text) : text[i] /= "\n"

\* C9 as amended: project_summary is the trimmed value of the FIRST Description:
\* line when that value is non-empty, and the first tech_stack entry contains the
\* trimmed value of the FIRST Languages: line; for a context built from a snapshot
\* whose description is one non-blank line, project_summary is that description
\* trimmed, whatever the README excerpt and the commit messages hold.
C9_FirstDescriptionLine ==
    FallbackDone =>
        LET ds == LabelledLines(ctxCase.text, DESCRIPTION_PREFIX)
            ls == LabelledLines(ctxCase.text, LANGUAGES_PREFIX)
        IN  /\ fallbackResult.ok
            /\ (ds /= <<>> /\ LabelValue(ds[1], DESCRIPTION_PREFIX) /= <<>>)
                  => Narrative["project_summary"].v = LabelValue(ds[1], DESCRIPTION_PREFIX)
            /\ ls /= <<>>
                  => Contains(Narrative["tech_stack"].v[1].v,
                              LabelValue(ls[1], LANGUAGES_PREFIX))
            /\ (ctxCase.built /\ ctxCase.description.t = "str"
                    /\ SingleLine(ctxCase.description.v)
                    /\ Strip(ctxCase.description.v) /= <<>>)
                  => Narrative["project_summary"].v = Strip(ctxCase.description.v)

\* a built context whose README excerpt holds its own Description: and Languages:
\* lines gave the snapshot's description and languages
C9_Witness ==
    /\ FallbackDone
    /\ ctxCase.built
    /\ ctxCase.description = PyStr(FOO_BAR)
    /\ Contains(ctxCase.text, <<"\n", "Description", ":", " ", "Evil">>)
    /\ Contains(ctxCase.text, <<"(", "None", ")">>)
    /\ Narrative["project_summary"].v = FOO_BAR
    /\ Contains(Narrative["tech_stack"].v[1].v, <<"Python", " ", "(", "900", ")">>)

(***************************************************************************)
(* Claims about build_pdf (checked under SpecPdf).                         *)
(***************************************************************************)
\* the narrative field a section heading belongs to
SectionField(title) ==
    CASE title = "Project Summary" -> "project_summary"
      [] title = "How it helps people" -> "how_it_helps_people"
      [] title = "Main features" -> "main_features"
      [] title = "How it works" -> "how_it_works"
      [] title = "Tech explained simply" -> "tech_stack"
      [] title = "Getting started" -> "getting_started"
      [] title = "Next steps" -> "next_steps"
      [] title = "Glossary" -> "glossary"

Headings == SelectSeq(pdfDocument, LAMBDA b : b.kind = "heading")

AllEmpty(analysis) == \A f \in DOMAIN analysis : analysis[f].v = <<>>

\* C7: a section heading is emitted only for a section that has content (a
\* non-empty list, a non-empty text); for a narrative with every list empty and
\* both texts empty the document holds only the header, the title and the footer.
C7_NoEmptySections ==
    PdfDone =>
        /\ \A i \in 1..Len(Headings) :
              pdfRequest.analysis[SectionField(Headings[i].text[1])].v /= <<>>
        /\ AllEmpty(pdfRequest.analysis) =>
              /\ Headings = <<>>
              /\ Len(pdfDocument) = 3
              /\ pdfDocument[1].kind = "header"
              /\ pdfDocument[2].kind = "title"
              /\ pdfDocument[3].kind = "footer"

=============================================================================
